---- MODULE Spec2Model ----
(***************************************************************************)
(* Delayed-work scheduler of src/main.rs: a mutex-protected delta queue    *)
(* (LinkedList<Timeout>), the timekeeper thread, the worker thread and     *)
(* delayed_work_submit.  Time is an integer number of milliseconds.        *)
(* Every critical section of the program (lock ... unlock) makes no        *)
(* blocking call while the lock is held, so each one is a single action.   *)
(***************************************************************************)
EXTENDS Integers, Sequences, FiniteSets, TLC

\* ------------------------------------------------------------ bounds
MaxTime == 5
MaxDelay == 3
MaxSubmits == 3

Delays == 1..MaxDelay

VARIABLES
    now,            \* the clock (SystemTime::now), in milliseconds
    list,           \* the LinkedList<Timeout> behind the mutex, head first
    ID_COUNTER,     \* static mut ID_COUNTER
    notify,         \* number of () messages queued on the notify channel
    tkpc,           \* where timekeeper_thread is
    t_id,           \* timekeeper local: id of the head it read
    t_delay,        \* timekeeper local: delay of the head it read
    sleep_time,     \* timekeeper local: instant taken before recv_timeout
    poisoned,       \* the mutex is poisoned (a thread panicked holding it)
    overflowChecks, \* the build panics on integer overflow (debug profile)
    workq,          \* the dispatch channel: work items sent, not yet received
    wpc,            \* where worker_thread is
    cur,            \* the work item worker_thread is running
    executed,       \* history: work items run to completion, in order
    sent,           \* history: work items in the order sent on the dispatch channel
    lastCall,       \* history: outcome of the last delayed_work_submit call
    mainpc,         \* where main is: "run", or "panicked" (an unwrap failed)
    guard           \* the thread whose MutexGuard is alive between steps, or "none"

vars == <<now, list, ID_COUNTER, notify, tkpc, t_id, t_delay, sleep_time,
          poisoned, overflowChecks, workq, wpc, cur, executed, sent,
          lastCall, mainpc, guard>>

tkvars == <<tkpc, t_id, t_delay, sleep_time>>
wvars == <<workq, wpc, cur, executed, sent>>

\* ------------------------------------------------------------ helpers
Max(a, b) == IF a >= b THEN a ELSE b

RECURSIVE SumDelays(_)
SumDelays(l) == IF l = << >> THEN 0 ELSE Head(l).delay + SumDelays(Tail(l))

\* sum of the delay fields from the head through position i
PrefixSum(l, i) == SumDelays(SubSeq(l, 1, i))

\* position of the first entry with this id, 0 when there is none
RECURSIVE IndexOf(_, _, _)
IndexOf(id, l, i) ==
    IF i > Len(l) THEN 0
    ELSE IF l[i].id = id THEN i
    ELSE IndexOf(id, l, i + 1)

Ids(l) == [i \in DOMAIN l |-> l[i].id]

\* ------------------------------------------------------------ Timeout
\* Timeout::new: the next id, the delay, and the expected trigger instant
TimeoutNew(delay, counter, clock) ==
    [id |-> counter + 1, delay |-> delay, at0 |-> clock, exp |-> clock + delay]

\* ------------------------------------------------------------ queue functions
\* a removal that hands the entry out and leaves it in the queue
timeouts_peek(id, l) ==
    LET idx == IndexOf(id, l, 1) IN
    IF idx >= 1
    THEN [found |-> TRUE, t |-> l[idx], list |-> l]
    ELSE [found |-> FALSE, t |-> [id |-> 0], list |-> l]

\* timeouts_remove: remove the first entry with this id
timeouts_remove(id, l) ==
    LET idx == IndexOf(id, l, 1) IN
    IF idx >= 1
    THEN [found |-> TRUE, t |-> l[idx],
          list |-> SubSeq(l, 1, idx - 1) \o SubSeq(l, idx + 1, Len(l))]
    ELSE [found |-> FALSE, t |-> [id |-> 0], list |-> l]

\* a debit that is charged to every entry of the queue
timeouts_decr_all(id, change, l) ==
    [i \in DOMAIN l |-> [l[i] EXCEPT !.delay = Max(0, l[i].delay - change)]]

\* a debit that subtracts without looking at the stored delay
timeouts_decr_unclamped(id, change, l) ==
    [i \in DOMAIN l |->
        IF l[i].id = id THEN [l[i] EXCEPT !.delay = l[i].delay - change] ELSE l[i]]

\* timeouts_decr_delay: debit every entry with this id, clamped at zero
timeouts_decr_delay(id, change, l) ==
    [i \in DOMAIN l |->
        IF l[i].id = id
        THEN IF change > l[i].delay
             THEN [l[i] EXCEPT !.delay = 0]
             ELSE [l[i] EXCEPT !.delay = l[i].delay - change]
        ELSE l[i]]

\* ------------------------------------------------------------ CursorMut
\* A cursor is a position 1..Len(l), or Len(l)+1 for the "ghost" non-element.
IsGhost(l, c) == c > Len(l)

\* a cursor insertion that overwrites the current element instead of shifting it
insert_replacing(l, c, x) ==
    IF IsGhost(l, c)
    THEN [list |-> Append(l, x), cursor |-> Len(l) + 2]
    ELSE [list |-> SubSeq(l, 1, c - 1) \o <<x>> \o SubSeq(l, c + 1, Len(l)),
          cursor |-> c]

\* CursorMut::insert_before: before the current element (at the end of the
\* list when the cursor is the ghost); the cursor keeps pointing at its element
insert_before(l, c, x) ==
    IF IsGhost(l, c)
    THEN [list |-> Append(l, x), cursor |-> Len(l) + 2]
    ELSE [list |-> SubSeq(l, 1, c - 1) \o <<x>> \o SubSeq(l, c, Len(l)),
          cursor |-> c + 1]

\* CursorMut::insert_after: after the current element; at the FRONT of the
\* list when the cursor is the ghost
insert_after(l, c, x) ==
    IF IsGhost(l, c)
    THEN [list |-> <<x>> \o l, cursor |-> Len(l) + 2]
    ELSE [list |-> SubSeq(l, 1, c) \o <<x>> \o SubSeq(l, c + 1, Len(l)),
          cursor |-> c]

\* an index that names the element just inserted, not the cursor's element
index_of_inserted(l, c) == IF IsGhost(l, c) THEN -1 ELSE c - 2

\* CursorMut::index: the 0-based index of the current element, -1 for None
cursor_index(l, c) == IF IsGhost(l, c) THEN -1 ELSE c - 1

\* ------------------------------------------------------------ insertion walk
\* The body of delayed_work_submit after the lock is taken: the list after the
\* insertion and whether a notification is sent.
RECURSIVE InsertWalk(_, _, _)
InsertWalk(l, c, new) ==
    IF ~IsGhost(l, c)
    THEN IF l[c].delay > new.delay
         THEN LET l1 == [l EXCEPT ![c].delay = l[c].delay - new.delay]
                  r == insert_before(l1, c, new)
              IN [list |-> r.list,
                  notify |-> cursor_index(r.list, r.cursor) = 1]
         ELSE InsertWalk(l, c + 1, [new EXCEPT !.delay = new.delay - l[c].delay])
    ELSE LET r == insert_after(l, c, new)
         IN [list |-> r.list,
             notify |-> cursor_index(r.list, r.cursor) = -1]

\* ------------------------------------------------------------ initial state
NoCall == [res |-> "none", dead |-> FALSE]

Init ==
    /\ now = 0
    /\ list = << >>
    /\ ID_COUNTER = 0
    /\ notify = 0
    /\ tkpc = "read"
    /\ t_id = 0
    /\ t_delay = 0
    /\ sleep_time = 0
    /\ poisoned = FALSE
    /\ overflowChecks \in BOOLEAN
    /\ workq = << >>
    /\ wpc = "recv"
    /\ cur = 0
    /\ executed = << >>
    /\ sent = << >>
    /\ lastCall = NoCall
    /\ mainpc = "run"
    /\ guard = "none"

\* ------------------------------------------------------------ submission
\* The timekeeper's Receiver<()> is dropped when the thread has unwound.
ReceiverGone == tkpc = "dead"

\* a lock that is taken even when the mutex is poisoned
LockIgnoresPoison(p) == FALSE

\* Mutex::lock fails when the mutex is poisoned
LockFails(p) == p

\* delayed_work_submit(work, d, timeout_worker), called by main, which unwraps
\* the result: on Err main panics and unwinds, dropping its work_sender
Submit(d) ==
    /\ mainpc = "run"
    /\ guard = "none"
    /\ ID_COUNTER < MaxSubmits
    /\ now + Max(SumDelays(list), d) <= MaxTime
    /\ IF LockFails(poisoned)
       THEN /\ lastCall' = [res |-> "Err", dead |-> ReceiverGone]
            /\ mainpc' = "panicked"
            /\ UNCHANGED <<list, ID_COUNTER, notify, poisoned>>
       ELSE LET new == TimeoutNew(d, ID_COUNTER, now)
                r == InsertWalk(list, 1, new)
            IN /\ ID_COUNTER' = new.id
               /\ list' = r.list
               /\ IF r.notify /\ ReceiverGone
                  THEN \* send fails, expect panics with the lock held
                       /\ poisoned' = TRUE
                       /\ notify' = notify
                       /\ lastCall' = [res |-> "panic", dead |-> TRUE]
                       /\ mainpc' = "panicked"
                  ELSE /\ poisoned' = poisoned
                       /\ notify' = IF r.notify THEN notify + 1 ELSE notify
                       /\ lastCall' = [res |-> "Ok", dead |-> ReceiverGone]
                       /\ mainpc' = mainpc
    /\ UNCHANGED <<now, tkvars, overflowChecks, wvars, guard>>

\* ------------------------------------------------------------ timekeeper
\* a guard bound outside the block, alive until the end of the loop body
GuardKeptAfterRead == "tk"

\* the guard is a local of the block that reads the front: dropped at its end
GuardAfterRead == "none"

\* lock; list.front().map(|t| (t.id, t.delay)); unlock
TkRead ==
    /\ tkpc = "read"
    /\ guard = "none"
    /\ IF LockFails(poisoned)
       THEN /\ tkpc' = "dead"
            /\ guard' = "none"
            /\ UNCHANGED <<t_id, t_delay>>
       ELSE /\ guard' = GuardAfterRead
            /\ IF list = << >>
               THEN /\ tkpc' = "recv"
                    /\ UNCHANGED <<t_id, t_delay>>
               ELSE /\ tkpc' = "clock"
                    /\ t_id' = list[1].id
                    /\ t_delay' = list[1].delay
    /\ UNCHANGED <<now, list, ID_COUNTER, notify, sleep_time, poisoned,
                   overflowChecks, wvars, lastCall, mainpc>>

\* a receive that returns whether or not a notification is queued (a poll)
RecvPolls(n) == TRUE

\* notify_receiver.recv() blocks until a notification is queued
RecvReady(n) == n > 0

\* notify_receiver.recv() returns: a notification was queued
TkRecv ==
    /\ tkpc = "recv"
    /\ RecvReady(notify)
    /\ notify' = IF notify > 0 THEN notify - 1 ELSE notify
    /\ tkpc' = "read"
    /\ UNCHANGED <<now, list, ID_COUNTER, t_id, t_delay, sleep_time, poisoned,
                   overflowChecks, wvars, lastCall, mainpc, guard>>

\* let sleep_time = SystemTime::now(); recv_timeout(t_delay) is entered
TkClock ==
    /\ tkpc = "clock"
    /\ sleep_time' = now
    /\ tkpc' = "wait"
    /\ UNCHANGED <<now, list, ID_COUNTER, notify, t_id, t_delay, poisoned,
                   overflowChecks, wvars, lastCall, mainpc, guard>>

\* recv_timeout returns Ok: a notification is queued
TkWake ==
    /\ tkpc = "wait"
    /\ notify > 0
    /\ notify' = notify - 1
    /\ tkpc' = "debit"
    /\ UNCHANGED <<now, list, ID_COUNTER, t_id, t_delay, sleep_time, poisoned,
                   overflowChecks, wvars, lastCall, mainpc, guard>>

\* recv_timeout returns Err: the deadline passed with no notification queued
TkTimeout ==
    /\ tkpc = "wait"
    /\ notify = 0
    /\ now >= sleep_time + t_delay
    /\ tkpc' = "expire"
    /\ UNCHANGED <<now, list, ID_COUNTER, notify, t_id, t_delay, sleep_time,
                   poisoned, overflowChecks, wvars, lastCall, mainpc, guard>>

\* Ok arm: lock; slept = sleep_time.elapsed(); timeouts_decr_delay; unlock
TkDebit ==
    /\ tkpc = "debit"
    /\ guard = "none"
    /\ IF LockFails(poisoned)
       THEN /\ tkpc' = "dead"
            /\ UNCHANGED list
       ELSE LET slept == now - sleep_time
            IN /\ list' = timeouts_decr_delay(t_id, slept, list)
               /\ tkpc' = "read"
    /\ UNCHANGED <<now, ID_COUNTER, notify, t_id, t_delay, sleep_time, poisoned,
                   overflowChecks, wvars, lastCall, mainpc, guard>>

\* `now - expired.dbg_expected_trigger.as_millis()` on u128: overflows when the
\* timeout fired before its expected trigger; a build with overflow checks panics
DriftPanics(clock, exp, checks) == clock < exp /\ checks

\* a panic with the MutexGuard alive poisons the mutex while unwinding
PanicPoisons(p) == TRUE

\* Err arm: lock; timeouts_remove; work_sender.send; drift diagnostics; unlock
TkExpire ==
    /\ tkpc = "expire"
    /\ guard = "none"
    /\ IF LockFails(poisoned)
       THEN /\ tkpc' = "dead"
            /\ UNCHANGED <<list, workq, sent, poisoned>>
       ELSE LET r == timeouts_remove(t_id, list) IN
            IF r.found
            THEN /\ list' = r.list
                 /\ workq' = Append(workq, r.t.id)
                 /\ sent' = Append(sent, r.t.id)
                 /\ IF DriftPanics(now, r.t.exp, overflowChecks)
                    THEN /\ tkpc' = "dead"
                         /\ poisoned' = PanicPoisons(poisoned)
                    ELSE /\ tkpc' = "read"
                         /\ poisoned' = poisoned
            ELSE /\ tkpc' = "read"
                 /\ UNCHANGED <<list, workq, sent, poisoned>>
    /\ UNCHANGED <<now, ID_COUNTER, notify, t_id, t_delay, sleep_time,
                   overflowChecks, wpc, cur, executed, lastCall, mainpc, guard>>

TkStep == TkRead \/ TkRecv \/ TkClock \/ TkWake \/ TkTimeout \/ TkDebit \/ TkExpire

\* ------------------------------------------------------------ worker
\* a receive that hands out the newest item of the channel
ChannelRecvNewest(q) == [item |-> q[Len(q)], rest |-> SubSeq(q, 1, Len(q) - 1)]

\* work_receiver.recv() returns Ok(work): the oldest item of the channel
ChannelRecv(q) == [item |-> Head(q), rest |-> Tail(q)]

WRecv ==
    /\ wpc = "recv"
    /\ workq # << >>
    /\ cur' = ChannelRecv(workq).item
    /\ workq' = ChannelRecv(workq).rest
    /\ wpc' = "run"
    /\ UNCHANGED <<now, list, ID_COUNTER, notify, tkvars, poisoned,
                   overflowChecks, executed, sent, lastCall, mainpc, guard>>

\* work() runs to completion
WRun ==
    /\ wpc = "run"
    /\ executed' = Append(executed, cur)
    /\ cur' = 0
    /\ wpc' = "recv"
    /\ UNCHANGED <<now, list, ID_COUNTER, notify, tkvars, poisoned,
                   overflowChecks, workq, sent, lastCall, mainpc, guard>>

\* the Senders of the dispatch channel still alive: main's work_sender and the
\* timekeeper's clone, each dropped when its thread unwinds
SendersLeft ==
    (IF mainpc = "run" THEN 1 ELSE 0) + (IF tkpc # "dead" THEN 1 ELSE 0)

\* a receive that reports disconnection as soon as one sender is gone
RecvDisconnectedEarly(q, n) == q = << >> /\ n <= 1

\* work_receiver.recv() returns Err: the channel is empty and every sender is gone
RecvDisconnected(q, n) == q = << >> /\ n = 0

\* Err(e) => { println!; break }: worker_thread returns
WExit ==
    /\ wpc = "recv"
    /\ RecvDisconnected(workq, SendersLeft)
    /\ wpc' = "done"
    /\ UNCHANGED <<now, list, ID_COUNTER, notify, tkvars, poisoned,
                   overflowChecks, workq, cur, executed, sent, lastCall, mainpc, guard>>

WorkerStep == WRecv \/ WRun \/ WExit

\* ------------------------------------------------------------ time
Tick ==
    /\ now < MaxTime
    /\ now' = now + 1
    /\ UNCHANGED <<list, ID_COUNTER, notify, tkvars, poisoned, overflowChecks,
                   wvars, lastCall, mainpc, guard>>

\* the timekeeper has no step to take: it is blocked in recv or recv_timeout,
\* or it has terminated
TkBlocked ==
    \/ tkpc = "dead"
    \/ tkpc = "recv" /\ notify = 0
    \/ tkpc = "wait" /\ notify = 0 /\ now < sleep_time + t_delay

\* time passes only while the timekeeper is blocked (no scheduling jitter)
PromptTick == TkBlocked /\ Tick

SubmitAny == \E d \in Delays : Submit(d)

\* any interleaving, any scheduling delay
Next == SubmitAny \/ TkStep \/ WorkerStep \/ Tick

Spec == Init /\ [][Next]_vars

\* the timekeeper runs as soon as it can
PromptNext == SubmitAny \/ TkStep \/ WorkerStep \/ PromptTick

PromptSpec == Init /\ [][PromptNext]_vars

\* fair scheduling of the threads and advancing time
FairSpec ==
    /\ Init /\ [][PromptNext]_vars
    /\ WF_vars(TkStep)
    /\ WF_vars(WorkerStep)
    /\ WF_vars(PromptTick)

\* ------------------------------------------------------------ claims
InList(id, l) == IndexOf(id, l, 1) >= 1

\* entry i of the queue is removed (and sent on the dispatch channel) by this step
Removed(i) == ~InList(list[i].id, list')

Dispatched(id) == \E k \in DOMAIN sent : sent[k] = id

\* C1: no early firing. Whenever the timekeeper removes a timeout and sends its
\* work, the clock is at or past the timeout's target expiry (submission instant
\* + delay), for every interleaving of submissions.
C1_NoEarlyFiring ==
    [][\A i \in DOMAIN list : Removed(i) => now >= list[i].exp]_vars

\* C2: dispatch ordering. When a timeout is dispatched, no timeout still pending
\* in the queue has a strictly earlier target expiry.
C2_DispatchOrder ==
    [][\A i \in DOMAIN list : Removed(i) =>
          \A j \in DOMAIN list' : list'[j].exp >= list[i].exp]_vars

\* the timekeeper is about to process a wake-up caused by one submission of
\* delay d2 < d1 that landed before the head it is waiting on (delay d1)
RaceWoken ==
    /\ tkpc = "debit"
    /\ Len(list) >= 2
    /\ list[2].id = t_id
    /\ list[1].at0 >= sleep_time
    /\ list[1].at0 < sleep_time + t_delay
    /\ list[1].exp - list[1].at0 < t_delay
    /\ list[2].delay = t_delay - (list[1].exp - list[1].at0)

\* C3: race correctness. Once the timekeeper has processed the wake-up of a
\* submission with delay d2 < d1 that arrived `elapsed` into its wait on the
\* head (delay d1), the sum of the delays from the head through the original
\* timeout is max(0, d1 - elapsed).
C3_RaceCorrect ==
    [][(RaceWoken /\ tkpc' = "read") =>
          PrefixSum(list', 2) = Max(0, t_delay - (now - sleep_time))]_vars

\* C4: stable ties. A timeout is never dispatched while a timeout submitted
\* earlier at the same instant with the same delay is still pending.
C4_StableTies ==
    [][\A i \in DOMAIN list : Removed(i) =>
          \A j \in DOMAIN list' :
              (list'[j].at0 = list[i].at0 /\ list'[j].exp = list[i].exp)
                  => list'[j].id > list[i].id]_vars

\* C5: prefix-sum invariant. While the timekeeper is in its bounded wait with no
\* wake-up pending (its last synchronization instant is sleep_time), for every
\* queued timeout the sum of the delays from the head through it equals its
\* target expiry minus that instant.
C5_PrefixSum ==
    (tkpc = "wait" /\ notify = 0) =>
        \A i \in DOMAIN list : PrefixSum(list, i) = list[i].exp - sleep_time

\* C6: no late firing beyond the scheduling epsilon. With a timekeeper that runs
\* as soon as it can (PromptSpec: its steps take no time, epsilon is zero), a
\* timeout is dispatched no later than its target expiry, whatever the other
\* submissions are.
C6_NoLateFiring ==
    [][\A i \in DOMAIN list : Removed(i) => now <= list[i].exp]_vars

\* C7: liveness. Under fair scheduling and advancing time every accepted
\* timeout is eventually sent on the dispatch channel, and a non-empty queue
\* eventually becomes empty.
C7_Liveness ==
    /\ \A id \in 1..MaxSubmits : (ID_COUNTER >= id) ~> Dispatched(id)
    /\ (list # << >>) ~> (list = << >>)

\* C8: submission failure is a value. A delayed_work_submit call never panics;
\* called after the timekeeper has terminated it returns Err, and it returns
\* Err in no other case.
C8_SubmitFailureIsValue ==
    /\ lastCall.res # "panic"
    /\ lastCall.dead => lastCall.res = "Err"
    /\ lastCall.res = "Err" => lastCall.dead

\* a submission was made after the timekeeper terminated and returned Err
C8_Witness == lastCall.dead /\ lastCall.res = "Err" /\ tkpc = "dead"

InsertedOnly ==
    /\ Len(list') = Len(list) + 1
    /\ \E k \in DOMAIN list' :
          /\ list'[k].id = ID_COUNTER'
          /\ Ids(SubSeq(list', 1, k - 1) \o SubSeq(list', k + 1, Len(list')))
                = Ids(list)

C10_ExecutionOrder ==
    /\ executed \o (IF wpc = "run" THEN <<cur>> ELSE << >>) \o workq = sent
    /\ wpc = "recv" => cur = 0

\* two items have run to completion and a third is running
C10_Witness == Len(executed) = 2 /\ wpc = "run" /\ Len(sent) = 3

\* C11: idle blocking. With the queue empty and no notification pending the
\* timekeeper is at the top of its loop, blocked in recv, or terminated; the
\* read at the top of the loop takes it to recv, where it has no step to take,
\* and it leaves recv only by consuming a notification.
C11_IdleBlocking ==
    /\ []((list = << >> /\ notify = 0) => tkpc \in {"read", "recv", "dead"})
    /\ []((tkpc = "recv" /\ notify = 0) => ~ENABLED TkStep)
    /\ [][(tkpc = "read" /\ list = << >> /\ tkpc' # "read") => tkpc' = "recv"]_vars
    /\ [][(tkpc = "recv" /\ tkpc' # "recv") =>
              (notify > 0 /\ notify' = notify - 1 /\ tkpc' = "read")]_vars

\* the timekeeper is idle again after a dispatch, and time has passed
C11_Witness ==
    tkpc = "recv" /\ notify = 0 /\ list = << >> /\ Len(sent) >= 1 /\ now >= 2

\* C12: worker shutdown. worker_thread terminates only by returning from its
\* loop, and only when its receive failed: the dispatch channel is empty and
\* every sender is gone, so every item sent has been run. While a sender
\* exists it has not terminated.
C12_WorkerShutdown ==
    /\ wpc \in {"recv", "run", "done"}
    /\ wpc = "done" => (SendersLeft = 0 /\ workq = << >> /\ executed = sent)
    /\ SendersLeft > 0 => wpc # "done"

\* the worker has returned after running the work that was dispatched
C12_Witness == wpc = "done" /\ Len(executed) >= 1

\* the timeout that the submission step just inserted
Inserted == list'[IndexOf(ID_COUNTER', list', 1)]

\* the walk passes every entry: each delay is <= the running remainder d
RECURSIVE RunsOff(_, _)
RunsOff(l, d) ==
    IF l = << >> THEN TRUE
    ELSE IF Head(l).delay > d THEN FALSE
    ELSE RunsOff(Tail(l), d - Head(l).delay)

\* C13: append on run-off. When the insertion walk passes every entry of a
\* non-empty queue, the new timeout becomes the last element, its delay is its
\* original delay minus the sum of the existing delays, and the existing
\* entries keep their positions and delays.
C13_AppendOnRunOff ==
    [][(ID_COUNTER' # ID_COUNTER /\ list # << >>
            /\ RunsOff(list, Inserted.exp - Inserted.at0))
        => list' = Append(list,
                     [Inserted EXCEPT !.delay =
                         (Inserted.exp - Inserted.at0) - SumDelays(list)])]_vars

\* C14: insertion preserves existing deadlines. For every timeout already in
\* the queue the sum of the delays from the head through it is the same before
\* and after a submission's insertion, whichever branch the insertion takes,
\* and the already-queued timeouts keep their relative order.
C14_InsertionPreserves ==
    [][ID_COUNTER' # ID_COUNTER =>
        /\ \A i \in DOMAIN list :
              /\ InList(list[i].id, list')
              /\ PrefixSum(list', IndexOf(list[i].id, list', 1)) = PrefixSum(list, i)
        /\ \A i, j \in DOMAIN list :
              i < j => IndexOf(list[i].id, list', 1) < IndexOf(list[j].id, list', 1)]_vars

\* C15: expiry removes the head. Whenever the timekeeper's bounded wait timed
\* out and it removes a timeout, that timeout is the head of the queue at the
\* moment of removal, even when a submission ran between the wait timing out
\* and the timekeeper taking the lock again.
C15_ExpiryRemovesHead ==
    [][\A i \in DOMAIN list : Removed(i) => i = 1]_vars

\* C16: clamped debit. When the wait on timeout t_id was interrupted by a
\* notification after `slept` time, the debit sets that timeout's delay to
\* max(0, delay - slept), from the delay as stored in the queue at that moment,
\* and every other entry keeps its delay, position and presence.
C16_ClampedDebit ==
    [][(tkpc = "debit" /\ tkpc' = "read") =>
        LET k == IndexOf(t_id, list, 1) IN
        /\ k >= 1
        /\ list' = [list EXCEPT ![k].delay = Max(0, list[k].delay - (now - sleep_time))]]_vars

\* the debit has just been applied to a timeout that a submission had already
\* pushed behind a new head and reduced
C16_Witness ==
    /\ tkpc = "read"
    /\ now > sleep_time
    /\ Len(list) >= 2
    /\ IndexOf(t_id, list, 1) >= 2
    /\ list[IndexOf(t_id, list, 1)].delay > 0
    /\ list[IndexOf(t_id, list, 1)].delay < t_delay

\* C17: wake exactly on a new head. A submission sends one notification if
\* and only if the timeout it inserted is the head of the queue after the
\* insertion; an insertion that lands behind the head sends none.
C17_WakeOnNewHead ==
    [][ID_COUNTER' # ID_COUNTER =>
        /\ notify' \in {notify, notify + 1}
        /\ (notify' = notify + 1) <=> (list'[1].id = ID_COUNTER')]_vars

\* the last submission landed behind the head and nothing was sent
C17_Witness ==
    /\ lastCall.res = "Ok"
    /\ IndexOf(ID_COUNTER, list, 1) >= 2
    /\ notify = 0
    /\ tkpc = "wait"

\* how many times id occurs in a sequence of ids
Occurrences(id, q) == Cardinality({i \in DOMAIN q : q[i] = id})

\* C18: at most once / conservation. Each timeout accepted by a submission is
\* in exactly one place: one entry of the queue, or one message sent on the
\* dispatch channel; none is sent twice, queued twice, or dropped.
C18_Conservation ==
    /\ \A id \in 1..ID_COUNTER :
          Occurrences(id, Ids(list)) + Occurrences(id, sent) = 1
    /\ \A i \in DOMAIN list : list[i].id \in 1..ID_COUNTER
    /\ \A i \in DOMAIN sent : sent[i] \in 1..ID_COUNTER

\* some timeouts have been dispatched while others are still pending
C18_Witness == Len(sent) >= 2 /\ Len(list) >= 1

\* a submission of the shortest delay is within the bounds of the model
SubmitInBounds ==
    ID_COUNTER < MaxSubmits /\ now + Max(SumDelays(list), 1) <= MaxTime

\* C19: deadlock freedom. The timekeeper holds no guard of the queue lock
\* while it is blocked in recv or recv_timeout, and a submission, whose send on
\* the unbounded notify channel cannot block, is one step that completes once
\* it has the lock: whenever the timekeeper is asleep a submitter can take the
\* lock and finish, whatever is queued on the notify channel.
C19_DeadlockFreedom ==
    /\ [](tkpc \in {"recv", "clock", "wait"} => guard = "none")
    /\ []((tkpc \in {"recv", "wait"} /\ mainpc = "run" /\ SubmitInBounds)
             => ENABLED SubmitAny)

\* a submission took the lock and inserted while the timekeeper was asleep
C19_Witness ==
    /\ tkpc = "wait"
    /\ lastCall.res = "Ok"
    /\ IndexOf(ID_COUNTER, list, 1) >= 1
    /\ list[IndexOf(ID_COUNTER, list, 1)].at0 > sleep_time
    /\ notify >= 1

\* C20: no delay underflow. Every entry of the queue has a delay >= 0: the
\* split subtraction, the running remainder of the walk and the debit are
\* never taken with a subtrahend larger than the minuend.
C20_NoUnderflow == \A i \in DOMAIN list : list[i].delay >= 0

\* the debit has just clamped: the timeout waited on had been reduced by a
\* split insertion to less than the time slept
C20_Witness ==
    /\ tkpc = "read"
    /\ Len(list) = 2
    /\ list[2].id = t_id
    /\ list[2].delay = 0
    /\ list[1].at0 > sleep_time
    /\ list[1].delay = list[1].exp - list[1].at0
    /\ list[1].delay < t_delay
    /\ now - sleep_time > t_delay - list[1].delay

====
